---- MODULE Spec2Model ----
(***************************************************************************)
(* The request pipeline of the AI Auto News Python SDK                     *)
(* (ai_auto_news/__init__.py): AIAutoNewsSDK._request, its retry loop,     *)
(* its error classification and its response envelope.                     *)
(***************************************************************************)
EXTENDS Integers, Sequences, FiniteSets, TLC

VARIABLES
    retries,            \* self.config.retries
    requests_json_error,\* TRUE: Response.json() raises requests' JSONDecodeError
                        \* (a RequestException, requests >= 2.27); FALSE: it
                        \* raises json's JSONDecodeError (a ValueError)
    session_headers,    \* self.session.headers
    request_headers,    \* local request_headers of _request
    pc,                 \* position of the call inside _request
    attempt,            \* loop variable of `for attempt in range(retries)`
    last_error,         \* local last_error
    result,             \* how the call ended: returned value or raised exception
    how,                \* which exit of _request was taken
    response,           \* what session.request produced on the latest attempt
    history,            \* status class of every attempt's outcome, in order
    log,                \* calls to session.request and time.sleep, in order
    calls,              \* concurrent calls of _request on the one client
    resource,           \* a call of a resource method (Posts, Generation, ...)
    webhook             \* a call of verify_webhook_signature

vars == <<retries, requests_json_error, session_headers, request_headers, pc,
          attempt, last_error, result, how, response, history, log,
          calls, resource, webhook>>

\* the state of one call of _request followed step by step
callVars == <<request_headers, pc, attempt, last_error, result, how, response,
              history, log>>

----------------------------------------------------------------------------
(* Bounds *)

MaxRetries == 3

\* config.retries ranges from -NegRetries up to MaxRetries
NegRetries == 1

----------------------------------------------------------------------------
(* Python values, tagged by type *)

None == [t |-> "none"]
PyStr(s) == [t |-> "str", s |-> s]
PyList == [t |-> "list"]
PyDict(m) == [t |-> "dict", m |-> m]
EmptyDict == PyDict([k \in {} |-> None])

Restrict(f, S) == [k \in S |-> f[k]]

\* dict.update / dict(a) then update(b): keys of b win
DictUpdate(a, b) == [k \in DOMAIN a \cup DOMAIN b |-> IF k \in DOMAIN b THEN b[k] ELSE a[k]]

\* only a dict has .get; anything else raises AttributeError
HasGet(v) == v.t = "dict"

\* d.get(k, default)
DictGet(d, k, default) == IF k \in DOMAIN d.m THEN d.m[k] ELSE default

RECURSIVE Pow2(_)
Pow2(i) == IF i <= 0 THEN 1 ELSE 2 * Pow2(i - 1)

\* a backoff that grows linearly instead of doubling
LinearDelay(i) == 2 * i

\* 2**attempt
BackoffDelay(i) == Pow2(i)

----------------------------------------------------------------------------
(* int(str): optional surrounding blanks, optional sign, one or more digits *)

DigitValue == "0" :> 0 @@ "1" :> 1 @@ "2" :> 2 @@ "3" :> 3 @@ "4" :> 4 @@
              "5" :> 5 @@ "6" :> 6 @@ "7" :> 7 @@ "8" :> 8 @@ "9" :> 9

RECURSIVE LStrip(_)
LStrip(s) == IF s # <<>> /\ Head(s) = " " THEN LStrip(Tail(s)) ELSE s

RECURSIVE RStrip(_)
RStrip(s) == IF s # <<>> /\ s[Len(s)] = " " THEN RStrip(SubSeq(s, 1, Len(s) - 1)) ELSE s

AllDigits(s) == \A j \in 1..Len(s) : s[j] \in DOMAIN DigitValue

RECURSIVE DigitsValue(_)
DigitsValue(s) ==
    IF s = <<>> THEN 0
    ELSE 10 * DigitsValue(SubSeq(s, 1, Len(s) - 1)) + DigitValue[s[Len(s)]]

\* [ok |-> FALSE] stands for ValueError
IntOfStr(s) ==
    LET u == RStrip(LStrip(s))
        signed == u # <<>> /\ Head(u) \in {"-", "+"}
        d == IF signed THEN Tail(u) ELSE u
    IN  IF d # <<>> /\ AllDigits(d)
        THEN [ok |-> TRUE,
              v |-> IF signed /\ Head(u) = "-" THEN 0 - DigitsValue(d) ELSE DigitsValue(d)]
        ELSE [ok |-> FALSE, v |-> 0]

----------------------------------------------------------------------------
(* Exceptions *)

Exc(type, i, status, message, code, details) ==
    [t |-> "exc", type |-> type, attempt |-> i, status |-> status,
     message |-> message, code |-> code, details |-> details]

\* AIAutoNewsException(message, code, details), raised during attempt i
\* (i = -1: raised after the loop)
AIAutoNewsException(i, message, code, details) ==
    Exc("AIAutoNewsException", i, 0, message, code, details)

\* an exception of the transport library or of Python, with its text;
\* status is e.response.status_code, 0 when there is no e.response
LibraryError(type, i, status, text) == Exc(type, i, status, PyStr(text), None, None)

RequestExceptionTypes ==
    {"ConnectionError", "Timeout", "HTTPError", "requests.JSONDecodeError"}

\* `except requests.exceptions.RequestException as e` catches e
IsRequestException(e) == e.type \in RequestExceptionTypes

\* str(last_error)
StrOf(e) == IF e = None THEN PyStr("None") ELSE e.message

----------------------------------------------------------------------------
(* What session.request can produce (the server and the network) *)

Chars(a, b) == <<a, b>>

\* values of the x-ratelimit-remaining header: integers and non-integers
RemainingValues == {Chars("4", "2"), Chars(" ", "7"), Chars("a", "b"), <<>>}

OtherHeaders == "x-request-id" :> Chars("r", "1") @@ "x-ratelimit-reset" :> Chars("9", "9")

ResponseHeaders ==
    {DictUpdate(Restrict(OtherHeaders, S), r) :
        S \in {{}, DOMAIN OtherHeaders},
        r \in {[k \in {} |-> <<>>]} \cup {"x-ratelimit-remaining" :> v : v \in RemainingValues}}

PostData == PyDict("id" :> PyStr("p1") @@ "title" :> PyStr("T"))

ErrorFields ==
    "code" :> PyStr("not_found") @@ "message" :> PyStr("missing") @@ "details" :> PyStr("d1")

\* the `error` member of a body: objects with any of code, message, details;
\* JSON null; a JSON string
ErrorMembers ==
    {PyDict(Restrict(ErrorFields, S)) : S \in SUBSET DOMAIN ErrorFields}
        \cup {None, PyStr("oops")}

\* parsed JSON documents
JsonValues ==
    {EmptyDict, PyDict("data" :> PostData), PostData, PyList, None}
        \cup {PyDict("error" :> e) : e \in ErrorMembers}

\* response.content: empty, not parseable as JSON, or the text of a JSON value
Contents ==
    {[raw |-> "empty", val |-> None], [raw |-> "malformed", val |-> None]}
        \cup {[raw |-> "json", val |-> v] : v \in JsonValues}

Statuses == {200, 404, 429, 503}

\* response.reason
Reason(status) ==
    CASE status = 200 -> "OK"
      [] status = 404 -> "Not Found"
      [] status = 429 -> "Too Many Requests"
      [] status = 503 -> "Service Unavailable"
      [] OTHER -> ""

Responses ==
    [kind : {"response"}, status : Statuses, content : Contents, headers : ResponseHeaders]

\* exceptions session.request raises: without a response, or carrying one (an
\* HTTPError from raise_for_status in a response hook or adapter of the session)
TransportErrors ==
    {[kind |-> "exception", type |-> "ConnectionError", status |-> 0, text |-> "connection refused"],
     [kind |-> "exception", type |-> "Timeout", status |-> 0, text |-> "read timed out"],
     [kind |-> "exception", type |-> "HTTPError", status |-> 404, text |-> "404 Client Error"],
     [kind |-> "exception", type |-> "HTTPError", status |-> 503, text |-> "503 Server Error"]}

Outcomes == Responses \cup TransportErrors

NoResponse == [kind |-> "none"]

\* what the history keeps of an outcome
Class(o) ==
    [kind |-> o.kind,
     status |-> o.status,
     body |-> IF o.kind = "response" THEN o.content.raw ELSE "none"]

----------------------------------------------------------------------------
(* The try body of one attempt, lines 329-351 *)

Returned(v) == [k |-> "return", value |-> v]
Raised(e) == [k |-> "raise", value |-> e]
NoResult == [k |-> "none", value |-> None]

\* a check that takes only statuses from 500 as failures
OkBelow500(resp) == resp.status < 500

\* response.ok
ResponseOk(resp) == ~(400 <= resp.status /\ resp.status < 600)

\* response.json()
ResponseJson(resp, i) ==
    IF resp.content.raw = "json"
    THEN Returned(resp.content.val)
    ELSE Raised(LibraryError(IF requests_json_error THEN "requests.JSONDecodeError"
                                                     ELSE "json.JSONDecodeError",
                             i, 0, "Expecting value"))

\* data = response.json() if response.content else {}
ParseBody(resp, i) ==
    IF resp.content.raw = "empty" THEN Returned(EmptyDict) ELSE ResponseJson(resp, i)

AttributeError(i) == Raised(LibraryError("AttributeError", i, 0, "no attribute 'get'"))
ValueError(i) == Raised(LibraryError("ValueError", i, 0, "invalid literal for int()"))

\* int(response.headers.get("x-ratelimit-remaining", 0))
RateLimitRemaining(headers) ==
    IF "x-ratelimit-remaining" \in DOMAIN headers
    THEN IntOfStr(headers["x-ratelimit-remaining"])
    ELSE [ok |-> TRUE, v |-> 0]

\* response.headers.get(name, "")
HeaderOrEmpty(headers, name) == IF name \in DOMAIN headers THEN headers[name] ELSE <<>>

\* the raise of lines 332-337
RaiseForError(resp, data, i) ==
    IF ~HasGet(data) THEN AttributeError(i)
    ELSE LET error == DictGet(data, "error", EmptyDict)
         IN  IF ~HasGet(error) THEN AttributeError(i)
             ELSE Raised(AIAutoNewsException(i,
                             DictGet(error, "message", PyStr(Reason(resp.status))),
                             DictGet(error, "code", PyStr("request_failed")),
                             DictGet(error, "details", None)))

\* the return of lines 339-351
APIResponse(resp, data, i) ==
    IF ~HasGet(data) THEN AttributeError(i)
    ELSE LET remaining == RateLimitRemaining(resp.headers)
         IN  IF ~remaining.ok THEN ValueError(i)
             ELSE Returned([success |-> TRUE,
                            data |-> DictGet(data, "data", data),
                            error |-> None,
                            metadata |->
                                [request_id |-> HeaderOrEmpty(resp.headers, "x-request-id"),
                                 rate_limit |->
                                    [remaining |-> remaining.v,
                                     reset |-> HeaderOrEmpty(resp.headers, "x-ratelimit-reset")]]])

\* lines 320-351 for attempt i, given what session.request produced
TryBody(o, i) ==
    IF o.kind = "exception" THEN Raised(LibraryError(o.type, i, o.status, o.text))
    ELSE LET parsed == ParseBody(o, i)
         IN  IF parsed.k = "raise" THEN parsed
             ELSE IF ~ResponseOk(o) THEN RaiseForError(o, parsed.value, i)
             ELSE APIResponse(o, parsed.value, i)

----------------------------------------------------------------------------
(* The except clause, lines 353-363 *)

\* lines 357-359: the caught error carries a response with a 4xx status
ShouldBreak(e) == e.status # 0 /\ 400 <= e.status /\ e.status < 500

\* a backoff that also sleeps after the last attempt
SleepAfterEvery(i, n) == i < n

\* line 362
ShouldSleep(i, n) == i < n - 1

\* a handler that keeps the first error it caught
KeepFirstError(old, e) == IF old = None THEN e ELSE old

\* line 354: last_error = e
NextLastError(old, e) == e

\* a loop that always makes a first attempt
LoopAtLeastOnce(i, n) == IF i = 0 \/ i < n THEN "request" ELSE "raise"

\* a loop that never runs out of attempts
LoopForever(i, n) == "request"

\* line 318: the loop goes on to index i, or is exhausted
LoopNext(i, n) == IF i < n THEN "request" ELSE "raise"

----------------------------------------------------------------------------
(* Client construction and the call *)

ApiKey == "k1"

\* lines 286-292
DefaultHeaders ==
    "Authorization" :> ("Bearer " \o ApiKey) @@ "Content-Type" :> "application/json" @@
    "User-Agent" :> "ai-auto-news-sdk-python/2.0.0"

\* the `headers` argument of _request: None, or a dict
CallHeaders ==
    {None, EmptyDict, PyDict("X-Trace" :> "t1" @@ "Authorization" :> "Bearer other")}

\* `if headers:` -- None and the empty dict are falsy
Truthy(h) == h # None /\ DOMAIN h.m # {}

\* a merge in which the defaults win over the per-call headers
DefaultsWin(defaults, h) == IF Truthy(h) THEN DictUpdate(h.m, defaults) ELSE defaults

\* lines 312-314
MergeHeaders(defaults, h) == IF Truthy(h) THEN DictUpdate(defaults, h.m) ELSE defaults

RequestEvent(i) == [ev |-> "request", n |-> i]
SleepEvent(d) == [ev |-> "sleep", n |-> d]

\* no concurrent calls, no resource call, no verification in progress
NoCalls == <<>>
NoResource == [k |-> "none"]
NoWebhook == [k |-> "none"]

\* lines 29-35 and 274-300: the client after construction; SDKConfig takes any
\* integer as retries
ClientInit ==
    /\ retries \in (0 - NegRetries)..MaxRetries
    /\ requests_json_error \in BOOLEAN
    /\ session_headers = DefaultHeaders

\* the call followed step by step has not started
NotCalled ==
    /\ request_headers = [k \in {} |-> ""]
    /\ pc = "idle"
    /\ attempt = 0
    /\ last_error = None
    /\ result = NoResult
    /\ how = "none"
    /\ response = NoResponse
    /\ history = <<>>
    /\ log = <<>>

Init ==
    /\ ClientInit
    /\ calls = NoCalls
    /\ resource = NoResource
    /\ webhook = NoWebhook
    /\ NotCalled

\* lines 311-318: set up, then enter the loop or fall through it
Begin ==
    /\ pc = "idle"
    /\ \E h \in CallHeaders : request_headers' = MergeHeaders(session_headers, h)
    /\ last_error' = None
    /\ attempt' = 0
    /\ pc' = LoopNext(0, retries)
    /\ how' = IF LoopNext(0, retries) = "raise" THEN "exhausted" ELSE how
    /\ UNCHANGED <<retries, requests_json_error, session_headers, result, response,
                   history, log, calls, resource, webhook>>

\* lines 319-363: one iteration of the loop up to its sleep
Attempt ==
    /\ pc = "request"
    /\ \E o \in Outcomes :
        LET r == TryBody(o, attempt)
        IN  /\ response' = o
            /\ history' = Append(history, Class(o))
            /\ log' = Append(log, RequestEvent(attempt))
            /\ IF r.k = "return"
               THEN /\ result' = r
                    /\ pc' = "done"
                    /\ how' = "return"
                    /\ UNCHANGED <<last_error, attempt>>
               ELSE IF ~IsRequestException(r.value)
               THEN /\ result' = r
                    /\ pc' = "done"
                    /\ how' = "propagate"
                    /\ UNCHANGED <<last_error, attempt>>
               ELSE /\ last_error' = NextLastError(last_error, r.value)
                    /\ result' = result
                    /\ IF ShouldBreak(r.value)
                       THEN pc' = "raise" /\ how' = "break" /\ attempt' = attempt
                       ELSE IF ShouldSleep(attempt, retries)
                       THEN pc' = "backoff" /\ how' = how /\ attempt' = attempt
                       ELSE /\ pc' = LoopNext(attempt + 1, retries)
                            /\ how' = IF LoopNext(attempt + 1, retries) = "raise"
                                       THEN "exhausted" ELSE how
                            /\ attempt' = IF LoopNext(attempt + 1, retries) = "raise"
                                           THEN attempt ELSE attempt + 1
    /\ UNCHANGED <<retries, requests_json_error, session_headers, request_headers,
                   calls, resource, webhook>>

\* line 363, then the next iteration
Sleep ==
    /\ pc = "backoff"
    /\ log' = Append(log, SleepEvent(BackoffDelay(attempt)))
    /\ attempt' = IF LoopNext(attempt + 1, retries) = "raise" THEN attempt ELSE attempt + 1
    /\ pc' = LoopNext(attempt + 1, retries)
    /\ how' = IF LoopNext(attempt + 1, retries) = "raise" THEN "exhausted" ELSE how
    /\ UNCHANGED <<retries, requests_json_error, session_headers, request_headers,
                   last_error, result, response, history, calls, resource, webhook>>

\* lines 365-369
RaiseFailed ==
    /\ pc = "raise"
    /\ result' = Raised(AIAutoNewsException(-1, StrOf(last_error),
                                            PyStr("request_failed"), last_error))
    /\ pc' = "done"
    /\ UNCHANGED <<retries, requests_json_error, session_headers, request_headers,
                   attempt, last_error, how, response, history, log,
                   calls, resource, webhook>>

Next == Begin \/ Attempt \/ Sleep \/ RaiseFailed

Spec == Init /\ [][Next]_vars

\* every HTTP attempt and every sleep completes, and the final raise is executed
FairSpec == Spec /\ WF_vars(Attempt) /\ WF_vars(Sleep) /\ WF_vars(RaiseFailed)

----------------------------------------------------------------------------
(* Concurrent calls of _request on one client: the calls share the             *)
(* configuration and the session; url, request_headers, last_error and the     *)
(* loop variable are locals of each call.                                      *)

\* number of concurrent calls
NumCalls == 2

CallIds == 1..NumCalls

IdleCall ==
    [pc |-> "idle", headers |-> None, request_headers |-> [k \in {} |-> ""],
     attempt |-> 0, sent |-> <<>>]

\* outcomes of session.request, one for each way an attempt can end
ConcOutcomes ==
    {o \in Outcomes :
        \/ o.kind = "exception" /\ o.type \in {"ConnectionError", "HTTPError"}
        \/ /\ o.kind = "response"
           /\ o.headers = [k \in {} |-> <<>>]
           /\ \/ o.status = 200 /\ o.content.raw \in {"empty", "malformed"}
              \/ o.status = 503 /\ o.content.raw = "empty"}

\* an update of the session's headers in place, were request_headers an alias
\* of them
MergeInPlace(defaults, h) == MergeHeaders(defaults, h)

\* line 312: dict(self.session.headers) is a copy, so the update of lines
\* 313-314 leaves the session's headers as they are
SessionHeadersAfterMerge(defaults, h) == defaults

\* lines 320-327: session.request sends the session's headers overlaid with the
\* headers argument
WireHeaders(session, req) == DictUpdate(session, req)

\* lines 311-318 in call c
CallBegin(c) ==
    /\ calls[c].pc = "idle"
    /\ \E h \in CallHeaders :
        /\ calls' = [calls EXCEPT ![c] =
                        [pc |-> LoopNext(0, retries),
                         headers |-> h,
                         request_headers |-> MergeHeaders(session_headers, h),
                         attempt |-> 0,
                         sent |-> <<>>]]
        /\ session_headers' = SessionHeadersAfterMerge(session_headers, h)
    /\ UNCHANGED <<retries, requests_json_error, resource, webhook, callVars>>

\* lines 319-363 in call c
CallAttempt(c) ==
    /\ calls[c].pc = "request"
    /\ \E o \in ConcOutcomes :
        LET i == calls[c].attempt
            r == TryBody(o, i)
            next == IF r.k = "return" \/ ~IsRequestException(r.value) THEN "done"
                    ELSE IF ShouldBreak(r.value) THEN "raise"
                    ELSE IF ShouldSleep(i, retries) THEN "backoff"
                    ELSE LoopNext(i + 1, retries)
        IN  calls' = [calls EXCEPT ![c] =
                        [@ EXCEPT !.pc = next,
                                  !.attempt = IF next = "request" THEN i + 1 ELSE i,
                                  !.sent = Append(@, WireHeaders(session_headers,
                                                               calls[c].request_headers))]]
    /\ UNCHANGED <<retries, requests_json_error, session_headers, resource, webhook,
                   callVars>>

\* line 363 in call c, then the next iteration
CallSleep(c) ==
    /\ calls[c].pc = "backoff"
    /\ calls' = [calls EXCEPT ![c] =
                    [@ EXCEPT !.pc = LoopNext(calls[c].attempt + 1, retries),
                              !.attempt = IF LoopNext(calls[c].attempt + 1, retries) = "raise"
                                          THEN @ ELSE @ + 1]]
    /\ UNCHANGED <<retries, requests_json_error, session_headers, resource, webhook,
                   callVars>>

\* lines 365-369 in call c
CallRaise(c) ==
    /\ calls[c].pc = "raise"
    /\ calls' = [calls EXCEPT ![c] = [@ EXCEPT !.pc = "done"]]
    /\ UNCHANGED <<retries, requests_json_error, session_headers, resource, webhook,
                   callVars>>

ConcInit ==
    /\ ClientInit
    /\ calls = [c \in CallIds |-> IdleCall]
    /\ resource = NoResource
    /\ webhook = NoWebhook
    /\ NotCalled

ConcNext ==
    \E c \in CallIds : CallBegin(c) \/ CallAttempt(c) \/ CallSleep(c) \/ CallRaise(c)

\* any interleaving of the steps of the calls
SpecConc == ConcInit /\ [][ConcNext]_vars

----------------------------------------------------------------------------
(* Resource methods: each builds params or a body from its arguments, calls    *)
(* _request and unwraps the data of the envelope.                              *)

PyInt(n) == [t |-> "int", n |-> n]
PyBool(b) == [t |-> "bool", b |-> b]
PyListOf(xs) == [t |-> "list", xs |-> xs]
\* a member of ContentType or Urgency, with its .value
EnumMember(v) == [t |-> "enum", value |-> v]

\* truth value of a Python object in `if x:`
IsTruthy(v) ==
    CASE v.t = "none" -> FALSE
      [] v.t = "str" -> v.s # ""
      [] v.t = "int" -> v.n # 0
      [] v.t = "bool" -> v.b
      [] v.t = "list" -> v.xs # <<>>
      [] v.t = "dict" -> DOMAIN v.m # {}
      [] OTHER -> TRUE

\* `if x is not None:`
IsNotNone(v) == v # None

\* d[k] = v when cond holds
SetIf(cond, d, k, v) == IF cond THEN DictUpdate(d, k :> v) ELSE d

OptionalStr == {None, PyStr(""), PyStr("tech")}

\* the arguments a caller can pass to each method; None is an optional
\* argument left out
MethodArgs ==
    [ PostsList |->
        [page : {PyInt(1)}, limit : {PyInt(20)}, category : OptionalStr,
         published : {None, PyBool(TRUE), PyBool(FALSE)}],
      PostsGet |-> [id_or_slug : {"p1"}],
      PostsCreate |-> [post_data : {PyDict("title" :> PyStr("T"))}],
      PostsUpdate |-> [post_id : {"p1"}, post_data : {PyDict("title" :> PyStr("T"))}],
      PostsSearch |->
        [query : {PyStr("ai")}, limit : {PyInt(20)}, category : OptionalStr],
      GenerationCreate |->
        [topic : {PyStr("ai")}, content_type : {EnumMember("blog"), EnumMember("news")},
         urgency : {None, EnumMember("low"), EnumMember("breaking")},
         target_length : {None, PyInt(0), PyInt(500)},
         tone : OptionalStr, audience : OptionalStr],
      AnalyticsUsage |-> [start : OptionalStr, end : OptionalStr, metric : OptionalStr],
      APIKeysCreate |->
        [name : {PyStr("ci")},
         scopes : {None, PyListOf(<<>>), PyListOf(<<PyStr("read")>>)},
         expires_at : OptionalStr],
      WebhooksCreate |->
        [url : {PyStr("https://h")}, events : {PyListOf(<<PyStr("post.created")>>)},
         secret : OptionalStr] ]

NoDict == [k \in {} |-> None]

Wire(verb, path, params, body) ==
    [verb |-> verb, path |-> path, params |-> params, body |-> body]

\* lines 81-87
PostsListRequest(a) ==
    Wire("GET", "/posts",
         PyDict(SetIf(IsNotNone(a.published),
                      SetIf(IsTruthy(a.category),
                            "page" :> a.page @@ "limit" :> a.limit,
                            "category", a.category),
                      "published", a.published)),
         None)

\* line 92
PostsGetRequest(a) == Wire("GET", "/posts/" \o a.id_or_slug, None, None)

\* line 97
PostsCreateRequest(a) == Wire("POST", "/posts", None, a.post_data)

\* line 102
PostsUpdateRequest(a) == Wire("PUT", "/posts/" \o a.post_id, None, a.post_data)

\* lines 113-117
PostsSearchRequest(a) ==
    Wire("GET", "/search",
         PyDict(SetIf(IsTruthy(a.category), "q" :> a.query @@ "limit" :> a.limit,
                      "category", a.category)),
         None)

\* lines 137-150
GenerationCreateRequest(a) ==
    Wire("POST", "/generate", None,
         PyDict(SetIf(IsTruthy(a.audience),
                  SetIf(IsTruthy(a.tone),
                    SetIf(IsTruthy(a.target_length),
                      SetIf(IsTruthy(a.urgency),
                            "topic" :> a.topic @@ "type" :> PyStr(a.content_type.value),
                            "urgency", IF a.urgency = None THEN None
                                       ELSE PyStr(a.urgency.value)),
                      "targetLength", a.target_length),
                    "tone", a.tone),
                  "audience", a.audience)))

\* lines 172-180
AnalyticsUsageRequest(a) ==
    Wire("GET", "/analytics/usage",
         PyDict(SetIf(IsTruthy(a.metric),
                  SetIf(IsTruthy(a.end),
                    SetIf(IsTruthy(a.start), NoDict, "start", a.start),
                    "end", a.end),
                  "metric", a.metric)),
         None)

\* lines 230-236
APIKeysCreateRequest(a) ==
    Wire("POST", "/apikeys", None,
         PyDict(SetIf(IsTruthy(a.expires_at),
                  SetIf(IsTruthy(a.scopes), "name" :> a.name, "scopes", a.scopes),
                  "expiresAt", a.expires_at)))

\* lines 259-263
WebhooksCreateRequest(a) ==
    Wire("POST", "/webhooks", None,
         PyDict(SetIf(IsTruthy(a.secret), "url" :> a.url @@ "events" :> a.events,
                      "secret", a.secret)))

BuildRequest(method, a) ==
    CASE method = "PostsList" -> PostsListRequest(a)
      [] method = "PostsGet" -> PostsGetRequest(a)
      [] method = "PostsCreate" -> PostsCreateRequest(a)
      [] method = "PostsUpdate" -> PostsUpdateRequest(a)
      [] method = "PostsSearch" -> PostsSearchRequest(a)
      [] method = "GenerationCreate" -> GenerationCreateRequest(a)
      [] method = "AnalyticsUsage" -> AnalyticsUsageRequest(a)
      [] method = "APIKeysCreate" -> APIKeysCreateRequest(a)
      [] method = "WebhooksCreate" -> WebhooksCreateRequest(a)

\* lines 38-47: the fields of Post without a default, and all of its fields
RequiredPostFields == {"id", "title", "content", "category", "slug", "published", "created_at"}
PostFields == RequiredPostFields \cup {"metadata"}

TypeError == Raised(LibraryError("TypeError", -1, 0, "unexpected or missing argument"))

\* Post(**data): data must be a mapping whose keys are fields of Post and
\* include every field without a default; the values are taken as they are
PostFromData(d) ==
    IF d.t # "dict" THEN TypeError
    ELSE IF ~(RequiredPostFields \subseteq DOMAIN d.m) \/ ~(DOMAIN d.m \subseteq PostFields)
    THEN TypeError
    ELSE Returned([t |-> "Post", fields |-> DictUpdate("metadata" :> None, d.m)])

\* some enumeration of a set as a sequence
RECURSIVE SeqOf(_)
SeqOf(S) == IF S = {} THEN <<>> ELSE LET x == CHOOSE x \in S : TRUE IN <<x>> \o SeqOf(S \ {x})

\* `for post in response.data`: the items of a list, the keys of a dict
Iterate(d) ==
    CASE d.t = "list" -> Returned(d.xs)
      [] d.t = "dict" -> Returned([j \in 1..Cardinality(DOMAIN d.m) |->
                                     PyStr(SeqOf(DOMAIN d.m)[j])])
      [] OTHER -> TypeError

\* [Post(**post) for post in response.data]
PostListFromData(d) ==
    LET items == Iterate(d)
    IN  IF items.k = "raise" THEN items
        ELSE IF \E j \in 1..Len(items.value) : PostFromData(items.value[j]).k = "raise"
        THEN TypeError
        ELSE Returned(PyListOf([j \in 1..Len(items.value) |->
                                    PostFromData(items.value[j]).value]))

PostMethods == {"PostsGet", "PostsCreate", "PostsUpdate", "GenerationCreate"}
PostListMethods == {"PostsList", "PostsSearch"}

\* what the method does with response.data
Unwrap(method, d) ==
    IF method \in PostMethods THEN PostFromData(d)
    ELSE IF method \in PostListMethods THEN PostListFromData(d)
    ELSE Returned(d)

FullPost ==
    PyDict([k \in RequiredPostFields |->
                IF k = "published" THEN PyBool(TRUE) ELSE PyStr(k)])

\* data of a successful envelope: a Post with and without metadata, with a field
\* missing or unknown, other objects, null, lists of these
DataDicts ==
    {FullPost, PyDict(DictUpdate(FullPost.m, "metadata" :> EmptyDict)),
     PyDict(DictUpdate(FullPost.m, "views" :> PyInt(3))), PostData, EmptyDict}
        \cup {PyDict(Restrict(FullPost.m, RequiredPostFields \ {k})) : k \in RequiredPostFields}

DataValues ==
    DataDicts \cup {None}
        \cup {PyListOf(<<>>), PyListOf(<<FullPost>>), PyListOf(<<FullPost, PostData>>),
              PyListOf(<<PyStr("p1")>>)}

\* the client errors _request raises to the method
RequestErrors ==
    {AIAutoNewsException(0, PyStr("missing"), PyStr("not_found"), None)}

\* a resource method is called: it builds its request and calls _request
ResourceCall ==
    /\ resource = NoResource
    /\ \E method \in DOMAIN MethodArgs : \E a \in MethodArgs[method] :
        resource' = [k |-> "requested", method |-> method, args |-> a,
                     wire |-> BuildRequest(method, a), data |-> None, out |-> NoResult]
    /\ UNCHANGED <<retries, requests_json_error, session_headers, calls, webhook, callVars>>

\* _request returns an envelope and the method unwraps its data
ResourceReturn ==
    /\ resource.k = "requested"
    /\ \E d \in DataValues :
        resource' = [resource EXCEPT !.k = "done", !.data = d,
                                     !.out = Unwrap(resource.method, d)]
    /\ UNCHANGED <<retries, requests_json_error, session_headers, calls, webhook, callVars>>

\* _request raises and the method lets the exception through
ResourceRaise ==
    /\ resource.k = "requested"
    /\ \E e \in RequestErrors :
        resource' = [resource EXCEPT !.k = "failed", !.out = Raised(e)]
    /\ UNCHANGED <<retries, requests_json_error, session_headers, calls, webhook, callVars>>

ResourceInit ==
    /\ ClientInit
    /\ calls = NoCalls
    /\ resource = NoResource
    /\ webhook = NoWebhook
    /\ NotCalled

ResourceNext == ResourceCall \/ ResourceReturn \/ ResourceRaise

SpecResource == ResourceInit /\ [][ResourceNext]_vars

----------------------------------------------------------------------------
(* verify_webhook_signature: a static method over three strings. A string is   *)
(* the sequence of its code points.                                            *)

\* one bit of one code point of a string flipped
FlipBit(str, j, b) ==
    [str EXCEPT ![j] = IF (str[j] \div Pow2(b)) % 2 = 1 THEN str[j] - Pow2(b)
                       ELSE str[j] + Pow2(b)]

\* a string and every string one bit away from it in an 8-bit code point
WithMutations(str) == {str} \cup {FlipBit(str, j, b) : j \in 1..Len(str), b \in 0..7}

\* str.encode(): UTF-8, one byte below U+0080 and two bytes below U+0800
RECURSIVE Encode(_)
Encode(str) ==
    IF str = <<>> THEN <<>>
    ELSE (IF Head(str) < 128 THEN <<Head(str)>>
          ELSE <<192 + (Head(str) \div 64), 128 + (Head(str) % 64)>>) \o Encode(Tail(str))

RECURSIVE Mix(_, _)
Mix(h, bytes) ==
    IF bytes = <<>> THEN h ELSE Mix((h * 31 + Head(bytes) + 1) % 65536, Tail(bytes))

\* the code point of a lower-case hexadecimal digit
HexChar(n) == IF n < 10 THEN 48 + n ELSE 87 + n

\* hmac.new(key, msg, hashlib.sha256).hexdigest(): a function of the two byte
\* strings that gives lower-case hexadecimal digits; the library's 256-bit
\* digest is stood for by a 16-bit keyed checksum
HmacHexDigest(key, msg) ==
    LET n == Mix(Mix(Mix(0, key), <<255>>), msg)
    IN  <<HexChar(n \div 4096), HexChar((n \div 256) % 16),
          HexChar((n \div 16) % 16), HexChar(n % 16)>>

IsAscii(str) == \A j \in 1..Len(str) : str[j] < 128

\* hmac.compare_digest(a, b) on two str: TypeError unless both are ASCII
CompareDigest(a, b) ==
    IF IsAscii(a) /\ IsAscii(b) THEN Returned(PyBool(a = b))
    ELSE Raised(LibraryError("TypeError", -1, 0,
                    "comparing strings with non-ASCII characters is not supported"))

\* lines 377-381
VerifyWebhookSignature(payload, signature, secret) ==
    LET expected == HmacHexDigest(Encode(secret), Encode(payload))
    IN  CompareDigest(signature, expected)

\* "abc" and "s" of the scenario, and the signature that matches them
PayloadAbc == <<97, 98, 99>>
SecretS == <<115>>
Payloads == WithMutations(PayloadAbc) \cup {<<>>}
Secrets == WithMutations(SecretS)
Signatures == WithMutations(HmacHexDigest(Encode(SecretS), Encode(PayloadAbc))) \cup {<<>>}

\* a call of the static method: no client is involved
Verify ==
    /\ webhook = NoWebhook
    /\ \E payload \in Payloads, signature \in Signatures, secret \in Secrets :
        webhook' = [k |-> "verified", payload |-> payload, signature |-> signature,
                    secret |-> secret,
                    out |-> VerifyWebhookSignature(payload, signature, secret)]
    /\ UNCHANGED <<retries, requests_json_error, session_headers, calls, resource, callVars>>

WebhookInit ==
    /\ ClientInit
    /\ calls = NoCalls
    /\ resource = NoResource
    /\ webhook = NoWebhook
    /\ NotCalled

WebhookNext == Verify

SpecWebhook == WebhookInit /\ [][WebhookNext]_vars

----------------------------------------------------------------------------
(* What a caller and the server observe of a call *)

Done == pc = "done"

IsRequest(e) == e.ev = "request"
IsSleep(e) == e.ev = "sleep"

\* number of HTTP attempts made so far
NumRequests == Len(SelectSeq(log, IsRequest))

\* the backoff sleeps performed so far, in order
SleepDelays == LET sl == SelectSeq(log, IsSleep) IN [j \in 1..Len(sl) |-> sl[j].n]

\* 1, 2, 4, ..., 2^(k-1)
Doubling(k) == [j \in 1..k |-> 2 ^ (j - 1)]

\* an outcome the specification calls retryable: a response with status >= 500,
\* or a transport exception (with no response, or carrying a status >= 500)
RetryableFailure(c) ==
    \/ c.kind = "response" /\ c.status >= 500
    \/ c.kind = "exception" /\ (c.status = 0 \/ c.status >= 500)

\* a connection error or timeout: an exception carrying no response
TransportFailure(c) == c.kind = "exception" /\ c.status = 0

ClientErrorStatus(st) == 400 <= st /\ st < 500

RaisedClientError == result.k = "raise" /\ result.value.type = "AIAutoNewsException"

\* the body of the latest response parsed to a JSON object, or was empty
BodyIsObject ==
    /\ response.kind = "response"
    /\ \/ response.content.raw = "empty"
       \/ response.content.raw = "json" /\ response.content.val.t = "dict"

\* the members of that object (none for an empty body)
BodyMembers == IF response.content.raw = "json" THEN response.content.val.m ELSE <<>>

\* the members of the body's `error` object (none when there is no such object)
ErrorObject ==
    IF "error" \in DOMAIN BodyMembers /\ BodyMembers["error"].t = "dict"
    THEN BodyMembers["error"].m ELSE <<>>

----------------------------------------------------------------------------
(* Claims *)

\* C1: with retries = N >= 1, a call all of whose attempts fail retryably (status
\* >= 500 or a transport exception) makes exactly N HTTP attempts, with the N-1
\* sleeps 1, 2, 4, ..., 2^(N-2) between them.
C1_RetryableFailuresUseAllAttempts ==
    (Done /\ retries >= 1 /\ \A j \in 1..Len(history) : RetryableFailure(history[j]))
        => (NumRequests = retries /\ SleepDelays = Doubling(retries - 1))

\* C2: a response with a status in 400..499 on the first attempt, whatever its
\* body, is the only attempt of the call and no sleep follows it.
C2_ClientErrorResponseSingleAttempt ==
    (retries >= 1 /\ history # <<>> /\ history[1].kind = "response"
        /\ ClientErrorStatus(history[1].status))
        => (log = <<RequestEvent(0)>> /\ pc \in {"raise", "done"})

\* C3: when attempts 1..k-1 (k <= N) fail retryably the call goes on to attempt
\* k, and when attempt k then receives a 2xx response with a JSON object as body
\* and well-formed headers, the call returns a success envelope with the data of
\* that body after exactly k attempts and the k-1 sleeps 1, 2, ..., 2^(k-2).
C3_SuccessAfterRetryableFailures ==
    /\ (history # <<>> /\ Len(history) < retries
            /\ \A j \in 1..Len(history) : RetryableFailure(history[j]))
        => pc \in {"backoff", "request"}
    /\ (Done /\ history # <<>>
            /\ (\A j \in 1..(Len(history) - 1) : RetryableFailure(history[j]))
            /\ response.kind = "response" /\ response.status \in 200..299
            /\ response.content.raw = "json" /\ response.content.val.t = "dict"
            /\ "x-ratelimit-remaining" \notin DOMAIN response.headers)
        => /\ result.k = "return"
           /\ result.value.success
           /\ result.value.data =
                IF "data" \in DOMAIN BodyMembers THEN BodyMembers["data"]
                ELSE response.content.val
           /\ NumRequests = Len(history)
           /\ SleepDelays = Doubling(Len(history) - 1)

\* C4: a non-ok response whose body parses to a JSON object (or is empty) makes
\* the call fail with an AIAutoNewsException whose code is body.error.code if
\* present and otherwise "request_failed", whose message is body.error.message if
\* present and otherwise the reason phrase, and whose details is
\* body.error.details.
C4_ErrorFieldsFromBody ==
    (Done /\ BodyIsObject /\ response.status >= 400)
        => /\ RaisedClientError
           /\ result.value.code =
                IF "code" \in DOMAIN ErrorObject THEN ErrorObject["code"]
                ELSE PyStr("request_failed")
           /\ result.value.message =
                IF "message" \in DOMAIN ErrorObject THEN ErrorObject["message"]
                ELSE PyStr(Reason(response.status))
           /\ result.value.details =
                IF "details" \in DOMAIN ErrorObject THEN ErrorObject["details"] ELSE None

\* C5: when the loop stops early because the failure carries a status in
\* 400..499, the exception raised is the captured error itself, not the generic
\* error with code "request_failed" whose details is the captured exception.
C5_BreakRaisesCapturedError ==
    (Done /\ how = "break")
        => ~(/\ RaisedClientError
             /\ result.value.code = PyStr("request_failed")
             /\ result.value.details.t = "exc")

\* C6: when the loop runs out of attempts, the call fails with an
\* AIAutoNewsException whose code is "request_failed", whose details is the error
\* of the last attempt and whose message is the text of that error.
C6_ExhaustedRaisesLastError ==
    (Done /\ how = "exhausted" /\ retries >= 1)
        => /\ RaisedClientError
           /\ result.value.code = PyStr("request_failed")
           /\ result.value.details.t = "exc"
           /\ result.value.details.attempt = retries - 1
           /\ result.value.details.type =
                IF response.kind = "exception" THEN response.type
                ELSE "requests.JSONDecodeError"
           /\ result.value.message =
                IF response.kind = "exception" THEN PyStr(response.text)
                ELSE PyStr("Expecting value")

\* a call ran out of attempts after failures of two different kinds
C6_Witness ==
    /\ Done /\ how = "exhausted" /\ retries >= 2
    /\ history[1].kind = "exception" /\ history[1].status = 503
    /\ response.kind = "exception" /\ response.type = "Timeout"

\* C7: a finished call has returned an envelope or raised AIAutoNewsException;
\* no exception of another type reaches the caller.
C7_OnlyClientErrorEscapes ==
    Done => (result.k = "return" \/ RaisedClientError)

\* C8: an ok response whose non-empty body is not parseable JSON makes the call
\* fail with an AIAutoNewsException whose code is "parse_error".
C8_MalformedSuccessBodyIsParseError ==
    (Done /\ response.kind = "response" /\ response.status < 400
        /\ response.content.raw = "malformed")
        => (RaisedClientError /\ result.value.code = PyStr("parse_error"))

\* C9: a successful response yields an envelope whose rate_limit.remaining is
\* the integer in x-ratelimit-remaining, or 0 when that header is missing or not
\* an integer, whose rate_limit.reset is x-ratelimit-reset or "", and whose
\* request_id is x-request-id or "".
C9_RateLimitMetadata ==
    (Done /\ BodyIsObject /\ response.status < 400)
        => /\ result.k = "return"
           /\ result.value.metadata.rate_limit.remaining =
                IF "x-ratelimit-remaining" \notin DOMAIN response.headers THEN 0
                ELSE CASE response.headers["x-ratelimit-remaining"] = Chars("4", "2") -> 42
                       [] response.headers["x-ratelimit-remaining"] = Chars(" ", "7") -> 7
                       [] OTHER -> 0
           /\ result.value.metadata.rate_limit.reset =
                IF "x-ratelimit-reset" \in DOMAIN response.headers
                THEN response.headers["x-ratelimit-reset"] ELSE <<>>
           /\ result.value.metadata.request_id =
                IF "x-request-id" \in DOMAIN response.headers
                THEN response.headers["x-request-id"] ELSE <<>>

\* position in the log of the request of the attempt with index i
RequestPos(i) == CHOOSE p \in 1..Len(log) : log[p] = RequestEvent(i)

\* C10: a transport failure at index i < retries-1 is followed by a sleep of
\* 2^i and then by attempt i+1; one at index retries-1 by no sleep and no
\* attempt; no sleep precedes attempt 0; a call whose attempts all fail this way
\* sleeps retries-1 times.
C10_TransportFailureBackoff ==
    /\ \A j \in 1..Len(history) :
        TransportFailure(history[j]) =>
            LET i == j - 1
                p == RequestPos(i)
            IN  IF i < retries - 1
                THEN /\ Len(log) = p => pc = "backoff"
                     /\ Len(log) > p => log[p + 1] = SleepEvent(2 ^ i)
                     /\ Len(log) = p + 1 => (pc = "request" /\ attempt = i + 1)
                     /\ Len(log) > p + 1 => log[p + 2] = RequestEvent(i + 1)
                ELSE Len(log) = p /\ pc \in {"raise", "done"}
    /\ log # <<>> => log[1] = RequestEvent(0)
    /\ (Done /\ retries >= 1 /\ Len(history) = retries
            /\ \A j \in 1..Len(history) : TransportFailure(history[j]))
        => Len(SleepDelays) = retries - 1

\* a call with three attempts, all transport failures, has ended after sleeping
\* 1 and then 2
C10_Witness ==
    /\ Done /\ retries = 3 /\ Len(history) = 3
    /\ \A j \in 1..3 : TransportFailure(history[j])
    /\ SleepDelays = <<1, 2>>

Max(a, b) == IF a >= b THEN a ELSE b

\* C14: an envelope that _request returns has success = true and no error (and
\* one with success = false would carry no data); it is returned only for a
\* response that is not a failure, never after a failed request.
C14_EnvelopeInvariant ==
    result.k = "return"
        => /\ result.value.success => result.value.error = None
           /\ ~result.value.success => result.value.data = None
           /\ result.value.success
           /\ result.value.error = None
           /\ response.kind = "response" /\ response.status < 400

\* a call has returned an envelope carrying the data member of the body
C14_Witness == Done /\ result.k = "return" /\ result.value.data = PostData

\* every sleep in the log comes right after the request of a failed attempt and
\* is followed by the request of the next attempt (or that request is pending)
SleepsBetweenAttempts ==
    \A p \in 1..Len(log) :
        IsSleep(log[p]) =>
            /\ p > 1 /\ IsRequest(log[p - 1])
            /\ ~(history[log[p - 1].n + 1].kind = "response"
                    /\ history[log[p - 1].n + 1].status < 400
                    /\ history[log[p - 1].n + 1].body # "malformed")
            /\ IF p < Len(log) THEN log[p + 1] = RequestEvent(log[p - 1].n + 1)
               ELSE pc = "request"

Variant ==
    CASE pc = "idle" -> 2 * Max(retries, 0) + 2
      [] pc = "request" -> 2 * (retries - attempt)
      [] pc = "backoff" -> 2 * (retries - attempt) - 1
      [] pc = "raise" -> 1
      [] OTHER -> 0

\* a call that has started eventually finishes
EventuallyDone == (pc # "idle") ~> Done

\* C18: a call terminates whatever the outcomes of its attempts: every step of
\* the call decreases a non-negative variant and a call that is not finished can
\* always take its next step (so, each attempt and sleep completing, it reaches
\* its end); no attempt has an index from `retries` on, and after the attempt
\* with index retries-1 the call only raises or returns.
C18_Terminates ==
    /\ [][Variant' < Variant]_vars
    /\ [](/\ Variant >= 0
          /\ ~Done => ENABLED Next
          /\ \A p \in 1..Len(log) : IsRequest(log[p]) => log[p].n < retries
          /\ (retries >= 1 /\ Len(history) >= retries) => pc \in {"raise", "done"})

\* a call has finished after using all of its three attempts
C18_Witness == Done /\ retries = 3 /\ Len(history) = 3 /\ how = "exhausted"

\* C19: a client configured with retries <= 0 sends no request and does not
\* sleep; the call fails with AIAutoNewsException, code "request_failed",
\* details None and message str(None).
C19_NoAttemptWithoutRetries ==
    (retries <= 0 /\ pc # "idle")
        => /\ log = <<>> /\ history = <<>>
           /\ pc \in {"raise", "done"}
           /\ Done => /\ RaisedClientError
                      /\ result.value.code = PyStr("request_failed")
                      /\ result.value.details = None
                      /\ result.value.message = PyStr("None")

\* a call on a client configured with a negative retries has failed
C19_Witness == Done /\ retries < 0 /\ RaisedClientError

\* the keys of the `headers` argument of call c
OwnKeys(c) == IF calls[c].headers = None THEN {} ELSE DOMAIN calls[c].headers.m

\* C12: calls on one client are independent under any interleaving: no step of
\* a call changes the configuration or the session's headers, every request of
\* a call carries, besides the default headers, only that call's own per-call
\* headers, and a call made without per-call headers sends exactly the defaults.
C12_CallsIndependent ==
    /\ [][retries' = retries /\ requests_json_error' = requests_json_error
            /\ session_headers' = session_headers]_vars
    /\ [](/\ session_headers = DefaultHeaders
          /\ \A c \in DOMAIN calls : \A j \in 1..Len(calls[c].sent) :
                /\ \A k \in DOMAIN calls[c].sent[j] :
                      \/ k \in OwnKeys(c) /\ calls[c].sent[j][k] = calls[c].headers.m[k]
                      \/ k \in DOMAIN DefaultHeaders
                            /\ calls[c].sent[j][k] = DefaultHeaders[k]
                /\ OwnKeys(c) = {} => calls[c].sent[j] = DefaultHeaders)

\* a call with per-call headers and a call without are both between attempts,
\* each having sent a request
C12_Witness ==
    /\ calls # NoCalls
    /\ \E c, d \in DOMAIN calls :
        /\ OwnKeys(c) # {} /\ OwnKeys(d) = {}
        /\ calls[c].pc = "backoff" /\ calls[d].pc = "backoff"
        /\ calls[c].sent # <<>> /\ calls[d].sent # <<>>

\* C13: the headers sent on every attempt of a call are the default headers
\* merged with the per-call headers: a key of the per-call headers is sent with
\* the per-call value, every other default key with the default value.
C13_SentHeadersMerge ==
    \A c \in DOMAIN calls : \A j \in 1..Len(calls[c].sent) :
        /\ DOMAIN calls[c].sent[j] = DOMAIN DefaultHeaders \cup OwnKeys(c)
        /\ \A k \in OwnKeys(c) : calls[c].sent[j][k] = calls[c].headers.m[k]
        /\ \A k \in DOMAIN DefaultHeaders \ OwnKeys(c) :
                calls[c].sent[j][k] = DefaultHeaders[k]

\* a call that overrides Authorization has sent two requests
C13_Witness ==
    /\ calls # NoCalls
    /\ \E c \in DOMAIN calls :
        /\ "Authorization" \in OwnKeys(c)
        /\ Len(calls[c].sent) = 2
        /\ calls[c].sent[2]["Authorization"] = "Bearer other"
        /\ calls[c].sent[2]["User-Agent"] = DefaultHeaders["User-Agent"]

----------------------------------------------------------------------------
(* Resource methods: what goes on the wire and what comes back *)

\* the optional arguments of each method and the wire key of each
OptionalArgs ==
    [ PostsList |-> {<<"category", "category">>, <<"published", "published">>},
      PostsGet |-> {},
      PostsCreate |-> {},
      PostsUpdate |-> {},
      PostsSearch |-> {<<"category", "category">>},
      GenerationCreate |-> {<<"urgency", "urgency">>, <<"target_length", "targetLength">>,
                            <<"tone", "tone">>, <<"audience", "audience">>},
      AnalyticsUsage |-> {<<"start", "start">>, <<"end", "end">>, <<"metric", "metric">>},
      APIKeysCreate |-> {<<"scopes", "scopes">>, <<"expires_at", "expiresAt">>},
      WebhooksCreate |-> {<<"secret", "secret">>} ]

\* the wire keys of the required arguments
RequiredKeys ==
    [ PostsList |-> {"page", "limit"},
      PostsSearch |-> {"q", "limit"},
      GenerationCreate |-> {"topic", "type"},
      AnalyticsUsage |-> {},
      APIKeysCreate |-> {"name"},
      WebhooksCreate |-> {"url", "events"} ]

\* the methods that build a query or body from typed arguments
BuildingMethods == DOMAIN RequiredKeys

\* the query or the body, whichever the method builds
Payload(w) == IF w.params # None THEN w.params.m ELSE w.body.m

\* an argument as it reads on the wire: an enumeration member by its value
WireValue(v) == IF v.t = "enum" THEN PyStr(v.value) ELSE v

Specified(v) == v # None

\* C15: for Posts.list, Posts.search, Generation.create, Analytics.usage,
\* APIKeys.create and Webhooks.create, every optional argument the caller
\* specified is on the wire with the given value, every optional argument the
\* caller left out is absent, and with all of them left out the payload has
\* exactly the required fields.
C15_OptionalsOnTheWire ==
    (resource.k # "none" /\ resource.method \in BuildingMethods) =>
        LET sent == Payload(resource.wire)
            opts == OptionalArgs[resource.method]
        IN  /\ \A o \in opts :
                IF Specified(resource.args[o[1]])
                THEN o[2] \in DOMAIN sent /\ sent[o[2]] = WireValue(resource.args[o[1]])
                ELSE o[2] \notin DOMAIN sent
            /\ (\A o \in opts : ~Specified(resource.args[o[1]]))
                   => DOMAIN sent = RequiredKeys[resource.method]

\* the part of C15 the code keeps: an optional argument left out is absent, one
\* on the wire has the given value, and nothing but required and optional keys
\* is sent
C15_UnsetOptionalsAbsent ==
    (resource.k # "none" /\ resource.method \in BuildingMethods) =>
        LET sent == Payload(resource.wire)
            opts == OptionalArgs[resource.method]
        IN  /\ \A o \in opts :
                /\ ~Specified(resource.args[o[1]]) => o[2] \notin DOMAIN sent
                /\ o[2] \in DOMAIN sent => sent[o[2]] = WireValue(resource.args[o[1]])
                /\ IsTruthy(resource.args[o[1]]) => o[2] \in DOMAIN sent
            /\ RequiredKeys[resource.method] \subseteq DOMAIN sent
            /\ DOMAIN sent \subseteq RequiredKeys[resource.method] \cup {o[2] : o \in opts}

\* Posts.list(category="tech") sends category=tech and omits published
C15_ScenarioReached ==
    /\ resource.k = "requested"
    /\ resource.method = "PostsList"
    /\ resource.args.category = PyStr("tech")
    /\ resource.args.published = None
    /\ Payload(resource.wire) =
         ("page" :> PyInt(1) @@ "limit" :> PyInt(20) @@ "category" :> PyStr("tech"))

\* response.data has the shape of a Post
PostShaped(d) ==
    /\ d.t = "dict"
    /\ RequiredPostFields \subseteq DOMAIN d.m
    /\ DOMAIN d.m \subseteq PostFields

\* the data, or one item of the data of a listing method, is not a Post
ShapeMismatch(method, d) ==
    IF method \in PostMethods THEN ~PostShaped(d)
    ELSE /\ method \in PostListMethods
         /\ d.t = "list"
         /\ \E j \in 1..Len(d.xs) : ~PostShaped(d.xs[j])

IsParseError(out) ==
    /\ out.k = "raise"
    /\ out.value.type = "AIAutoNewsException"
    /\ out.value.code = PyStr("parse_error")

\* C16: when the data of a successful response does not have the shape of a
\* Post, Posts.get, Posts.create, Posts.update, Posts.list, Posts.search and
\* Generation.create fail with a ClientError of kind parse_error.
C16_ShapeMismatchIsParseError ==
    (resource.k = "done" /\ ShapeMismatch(resource.method, resource.data))
        => IsParseError(resource.out)

\* what the code does keep: on a mismatch no record is built, and data of the
\* right shape is returned as a Post with every field as received
C16_NoPermissiveRecord ==
    (resource.k = "done" /\ resource.method \in PostMethods) =>
        IF PostShaped(resource.data)
        THEN /\ resource.out.k = "return"
             /\ \A f \in DOMAIN resource.data.m :
                    resource.out.value.fields[f] = resource.data.m[f]
        ELSE resource.out.k = "raise"


----------------------------------------------------------------------------
(* verify_webhook_signature *)

\* the hex encoding of the keyed digest of the payload of the last call
ExpectedSignature == HmacHexDigest(Encode(webhook.secret), Encode(webhook.payload))

\* C11: for all strings payload, signature and secret the function returns
\* true if and only if signature equals the hex encoding of the keyed digest of
\* payload, and false for every other signature, among them every single-bit
\* mutation; it reads and writes no client state.
C11_TrueIffSignatureMatches ==
    /\ webhook.k = "verified" =>
           webhook.out = Returned(PyBool(webhook.signature = ExpectedSignature))
    /\ session_headers = DefaultHeaders
    /\ pc = "idle"

\* what the code keeps: an ASCII signature is accepted exactly when it is the
\* expected one, and a signature that is not ASCII is never accepted
C11_AsciiSignatureDecided ==
    webhook.k = "verified" =>
        IF IsAscii(webhook.signature)
        THEN webhook.out = Returned(PyBool(webhook.signature = ExpectedSignature))
        ELSE webhook.out.k = "raise" /\ webhook.out.value.type = "TypeError"

\* the scenario's matching call, and calls with one bit of one argument flipped
C11_MatchReached ==
    /\ webhook.k = "verified"
    /\ webhook.payload = PayloadAbc
    /\ webhook.secret = SecretS
    /\ webhook.out = Returned(PyBool(TRUE))

C11_MutatedPayloadRejected ==
    /\ webhook.k = "verified"
    /\ webhook.payload # PayloadAbc
    /\ webhook.payload \in WithMutations(PayloadAbc)
    /\ webhook.secret = SecretS
    /\ webhook.signature = HmacHexDigest(Encode(SecretS), Encode(PayloadAbc))
    /\ webhook.out = Returned(PyBool(FALSE))

\* in the model the signature of the scenario is the digest of no other
\* payload or secret
C11_NoCollisionInModel ==
    (/\ webhook.k = "verified"
     /\ webhook.signature = HmacHexDigest(Encode(SecretS), Encode(PayloadAbc))
     /\ webhook.out = Returned(PyBool(TRUE)))
        => webhook.payload = PayloadAbc /\ webhook.secret = SecretS


============================================================================
